---------------------------- MODULE Spec2Model ----------------------------
(***************************************************************************)
(* A model of ndk/src/surface_control.rs: the SurfaceControl /             *)
(* SurfaceTransaction / SurfaceTransactionStats bindings.                  *)
(*                                                                         *)
(* The wrapper is modelled call by call.  The native compositor behind    *)
(* the ffi:: functions is the environment: it is modelled by what the     *)
(* doc comments of the wrapper say about it, and every choice it is free  *)
(* to make is a nondeterministic one.                                      *)
(***************************************************************************)
EXTENDS Integers, Sequences, FiniteSets

\* ------------------------------------------------------------------ bounds
MaxTxn == 2          \* SurfaceTransaction objects the client creates
MaxClosure == 2      \* Box::new(func) allocations
MaxSubmit == 2       \* calls of apply
MaxNode == 2         \* ASurfaceControl nodes
MaxClone == 1        \* clone / clone_from_ptr calls per node
MaxStaged == 2       \* staging calls per transaction between two applies
MaxFd == 2           \* file descriptors the process is handed
MaxFenceSubmit == 1  \* calls of apply while acquire fences are followed
MaxList == 1         \* surface_controls() calls
MaxTime == 2         \* compositor clock readings

Txns == 1..MaxTxn
Closures == 1..MaxClosure
Phases == {"commit", "complete"}
Nodes == 1..MaxNode
Fds == 0..(MaxFd - 1)
Lists == 1..MaxList
Times == 0..MaxTime
NULL == 0
\* enum Visibility { Hide = 0, Show = 1 }
Visibility == {0, 1}
\* "-1 => None": the raw value that stands for "no fence"
NoFd == -1
\* a stats pointer the compositor hands to a trampoline: null or valid
StatsPtrs == {NULL, 1}
\* what the user's FnMut does when called
Behaviours == {"ok", "panic"}

VARIABLES
    handle,      \* [Txns -> {"none","live","dropped"}]: the SurfaceTransaction value
    registered,  \* [Txns -> [Phases -> SUBSET Closures]]: contexts the native
                 \* transaction holds, not yet submitted
    heap,        \* [Closures -> {"unalloc","alloc","freed"}]: the Box<OnComplete>
    closureOf,   \* [Closures -> [txn, phase]]: which set_on_* call made the box
                 \* (phase "commit": set_on_commit, "complete": set_on_complete)
    submitted,   \* Seq of [txn, commit, complete]: what apply handed over, in order
    fired,       \* SUBSET Closures: contexts whose trampoline returned to the compositor
    invoked,     \* [Closures -> Nat]: times the boxed closure was called
    panicked,    \* SUBSET Closures: contexts whose trampoline run panicked
    lateFired,   \* SUBSET Closures: contexts called after their transaction
                 \* object was dropped
    deletes,     \* [Txns -> Nat]: calls of ASurfaceTransaction_delete
    aborted,     \* the process was terminated by abort_on_panic
    unwound,     \* a panic unwound out of an extern "C" trampoline
    uaf,         \* a trampoline dereferenced a freed context
    staged,      \* [Txns -> Seq of [op, node, fence]]: updates accumulated in
                 \* the native transaction
    nodeState,   \* [Nodes -> {"none","alive","released"}]: the ASurfaceControl
    nodeRefs,    \* [Nodes -> Int]: references the client holds on the node
                 \* (create: 1, ASurfaceControl_acquire: +1, _release: -1)
    nodeHandles, \* [Nodes -> Nat]: live SurfaceControl values
    nodeClones,  \* [Nodes -> Nat]: clone calls made on the node
    fdClient,    \* [Fds -> Nat]: OwnedFd values in client hands wrapping the fd
    fdNative,    \* [Fds -> Nat]: 1 while the transaction / compositor owns the fd
    fdCloses,    \* [Fds -> Nat]: close() calls on the fd
    fdSnap,      \* SUBSET Fds: descriptors handed out by stats queries
    snap,        \* the SurfaceTransactionStats a running callback was given:
                 \* [phase, fence, count]; phase "none" when no callback runs
    lastQuery,   \* the last fence query: [fn, via, phase, fence, raw, result]
    latched,     \* Seq of [sub, ops, time]: what the compositor has applied to
                 \* the surface tree, in order, with the latch time it reports
    clock,       \* the compositor's clock
    lastCreate,  \* the last creation call: [fn, raw, result]
    lists        \* [Lists -> [state, elems]]: the SurfaceControls values made
                 \* by surface_controls(): "held" inside the callback that
                 \* made it, "kept" once that callback has returned,
                 \* "released" when dropped; elems is the native array

txnVars == <<handle, registered, submitted, deletes>>
cbVars == <<heap, closureOf, fired, invoked, panicked, lateFired, uaf>>
procVars == <<aborted, unwound>>
nodeVars == <<nodeState, nodeRefs, nodeHandles, nodeClones>>
fdVars == <<fdClient, fdNative, fdCloses, fdSnap>>
statsVars == <<snap, lastQuery>>
compVars == <<latched, clock>>
vars == <<txnVars, cbVars, procVars, staged, nodeVars, fdVars, statsVars,
          compVars, lastCreate, lists>>

NoReg == [p \in Phases |-> {}]
NoSnap == [phase |-> "none", fence |-> FALSE, count |-> 0]
None == [kind |-> "none", fd |-> NoFd]
Some(fd) == [kind |-> "some", fd |-> fd]
NoQuery == [fn |-> "none", via |-> "none", phase |-> "none", fence |-> FALSE,
            raw |-> NoFd, result |-> None]
NoHandle == [kind |-> "none", ptr |-> NULL]
SomeHandle(ptr) == [kind |-> "some", ptr |-> ptr]
NoCreate == [fn |-> "none", raw |-> NULL, result |-> NoHandle]
NoList == [state |-> "none", elems |-> <<>>]

Init ==
    /\ handle = [t \in Txns |-> "none"]
    /\ registered = [t \in Txns |-> NoReg]
    /\ heap = [c \in Closures |-> "unalloc"]
    /\ closureOf = [c \in Closures |-> [txn |-> 0, phase |-> "none"]]
    /\ submitted = <<>>
    /\ fired = {}
    /\ invoked = [c \in Closures |-> 0]
    /\ panicked = {}
    /\ lateFired = {}
    /\ deletes = [t \in Txns |-> 0]
    /\ aborted = FALSE
    /\ unwound = FALSE
    /\ uaf = FALSE
    /\ staged = [t \in Txns |-> <<>>]
    /\ nodeState = [n \in Nodes |-> "none"]
    /\ nodeRefs = [n \in Nodes |-> 0]
    /\ nodeHandles = [n \in Nodes |-> 0]
    /\ nodeClones = [n \in Nodes |-> 0]
    /\ fdClient = [f \in Fds |-> 0]
    /\ fdNative = [f \in Fds |-> 0]
    /\ fdCloses = [f \in Fds |-> 0]
    /\ fdSnap = {}
    /\ snap = NoSnap
    /\ lastQuery = NoQuery
    /\ latched = <<>>
    /\ clock = 0
    /\ lastCreate = NoCreate
    /\ lists = [l \in Lists |-> NoList]

\* The process runs: nothing happens after an abort, and nothing is modelled
\* after a panic has unwound into a foreign frame.
Running == ~aborted /\ ~unwound

\* -------------------------------------------------------- SurfaceTransaction

\* NonNull::new_unchecked: the pointer is wrapped as it is.
NonNull_new_unchecked(ptr) == SomeHandle(ptr)

\* NonNull::new: None for the null pointer, Some(ptr) for any other.
NonNull_new(ptr) == IF ptr = NULL THEN NoHandle ELSE SomeHandle(ptr)

\* SurfaceTransaction::new: ASurfaceTransaction_create returned `ptr`.
\* NonNull::new(ptr).map(..): a null pointer gives None and no handle.
\* Transactions are numbered in the order they are created.
new(t, ptr) ==
    /\ Running
    /\ handle[t] = "none"
    /\ \A u \in Txns : u < t => handle[u] # "none"
    /\ LET result == NonNull_new(ptr) IN
        /\ handle' = [handle EXCEPT ![t] = IF result = NoHandle THEN "none"
                                                             ELSE "live"]
        /\ lastCreate' = [fn |-> "new", raw |-> ptr, result |-> result]
    /\ UNCHANGED <<registered, submitted, deletes, cbVars, procVars, staged,
                   nodeVars, fdVars, statsVars, compVars, lists>>

\* Box::new(func): the next free allocation.
FreshClosure == CHOOSE c \in Closures :
                    /\ heap[c] = "unalloc"
                    /\ \A d \in Closures : heap[d] = "unalloc" => c <= d

CanAlloc == \E c \in Closures : heap[c] = "unalloc"

\* ASurfaceTransaction_setOnComplete / _setOnCommit as seen from the wrapper:
\* "Sets the callback that will be invoked".  Whether a second call replaces
\* the first callback or adds to it is the native layer's choice.
NativeSetCallback(old, ctx) == {old \cup {ctx}, {ctx}}

\* Box::new(func), Box::into_raw(boxed), then the native registration of
\* (context, trampoline): `kind` is the wrapper method called, `p` the phase
\* of the ffi function it calls.
Register(t, kind, p) ==
    /\ Running
    /\ handle[t] = "live"
    /\ CanAlloc
    /\ LET c == FreshClosure IN
        /\ heap' = [heap EXCEPT ![c] = "alloc"]
        /\ closureOf' = [closureOf EXCEPT ![c] = [txn |-> t, phase |-> kind]]
        /\ \E now \in NativeSetCallback(registered[t][p], c) :
               registered' = [registered EXCEPT ![t][p] = now]
    /\ UNCHANGED <<handle, submitted, deletes, fired, invoked, panicked,
                   lateFired, uaf, procVars, staged, nodeVars, fdVars,
                   statsVars,
                   compVars, lastCreate, lists>>

\* SurfaceTransaction::set_on_complete
set_on_complete(t) == Register(t, "complete", "complete")

\* set_on_commit written by copying set_on_complete and keeping its ffi call.
set_on_commit_as_complete(t) == Register(t, "commit", "complete")

\* SurfaceTransaction::set_on_commit
set_on_commit(t) == Register(t, "commit", "commit")

\* An apply that also deletes the native transaction it has submitted.
apply_deleting(t) ==
    /\ Running
    /\ handle[t] = "live"
    /\ Len(submitted) < MaxSubmit
    /\ submitted' = Append(submitted, [txn |-> t,
                                       commit |-> registered[t]["commit"],
                                       complete |-> registered[t]["complete"],
                                       ops |-> staged[t]])
    /\ registered' = [registered EXCEPT ![t] = NoReg]
    /\ staged' = [staged EXCEPT ![t] = <<>>]
    /\ deletes' = [deletes EXCEPT ![t] = @ + 1]
    /\ UNCHANGED <<handle, cbVars, procVars, nodeVars, fdVars, statsVars,
                   compVars, lastCreate, lists>>

\* SurfaceTransaction::apply: ASurfaceTransaction_apply hands the accumulated
\* updates and callbacks to the compositor; the object stays valid.
apply(t) ==
    /\ Running
    /\ handle[t] = "live"
    /\ Len(submitted) < MaxSubmit
    /\ submitted' = Append(submitted, [txn |-> t,
                                       commit |-> registered[t]["commit"],
                                       complete |-> registered[t]["complete"],
                                       ops |-> staged[t]])
    /\ registered' = [registered EXCEPT ![t] = NoReg]
    /\ staged' = [staged EXCEPT ![t] = <<>>]
    /\ UNCHANGED <<handle, deletes, cbVars, procVars, nodeVars, fdVars,
                   statsVars,
                   compVars, lastCreate, lists>>

\* A drop that also frees every box made for the transaction's callbacks.
drop_freeing_boxes(t) ==
    /\ Running
    /\ handle[t] = "live"
    /\ handle' = [handle EXCEPT ![t] = "dropped"]
    /\ deletes' = [deletes EXCEPT ![t] = @ + 1]
    /\ registered' = [registered EXCEPT ![t] = NoReg]
    /\ heap' = [c \in Closures |->
                   IF closureOf[c].txn = t /\ heap[c] = "alloc"
                   THEN "freed" ELSE heap[c]]
    /\ staged' = [staged EXCEPT ![t] = <<>>]
    /\ UNCHANGED <<submitted, closureOf, fired, invoked, panicked, lateFired,
                   uaf, procVars, nodeVars, fdVars, statsVars,
                   compVars, lastCreate, lists>>

\* Drop for SurfaceTransaction: ASurfaceTransaction_delete and nothing else.
\* The boxes leaked by Box::into_raw are not touched.
drop_SurfaceTransaction(t) ==
    /\ Running
    /\ handle[t] = "live"
    /\ handle' = [handle EXCEPT ![t] = "dropped"]
    /\ deletes' = [deletes EXCEPT ![t] = @ + 1]
    /\ registered' = [registered EXCEPT ![t] = NoReg]
    /\ staged' = [staged EXCEPT ![t] = <<>>]
    /\ UNCHANGED <<submitted, cbVars, procVars, nodeVars, fdVars, statsVars,
                   compVars, lastCreate, lists>>

\* ------------------------------------------------------------- trampolines

\* crate::utils::abort_on_panic: a panic of the wrapped closure terminates
\* the process instead of unwinding.
abort_on_panic(result) == IF result = "panic" THEN "abort" ELSE result

\* The body both trampolines wrap: NonNull::new(stats).unwrap() panics on a
\* null stats pointer, then the boxed closure runs.
TrampolineBody(stats, behaviour) == IF stats = NULL THEN "panic" ELSE behaviour

\* A trampoline that calls the closure without abort_on_panic.
on_complete_unguarded(stats, behaviour) == TrampolineBody(stats, behaviour)

\* extern "C" fn on_complete inside set_on_complete
on_complete(stats, behaviour) == abort_on_panic(TrampolineBody(stats, behaviour))

\* extern "C" fn on_commit inside set_on_commit
on_commit(stats, behaviour) == abort_on_panic(TrampolineBody(stats, behaviour))

Trampoline(p, stats, behaviour) ==
    IF p = "commit" THEN on_commit(stats, behaviour)
                    ELSE on_complete(stats, behaviour)

\* The compositor thread calls the trampoline registered for context `c`.
Invoke(c, p, stats, behaviour) ==
    LET out == Trampoline(p, stats, behaviour) IN
    /\ uaf' = (uaf \/ heap[c] # "alloc")
    /\ invoked' = [invoked EXCEPT ![c] = IF stats = NULL THEN @ ELSE @ + 1]
    /\ lateFired' = IF handle[closureOf[c].txn] = "dropped"
                    THEN lateFired \cup {c} ELSE lateFired
    /\ panicked' = IF TrampolineBody(stats, behaviour) = "panic"
                   THEN panicked \cup {c} ELSE panicked
    /\ aborted' = (out = "abort")
    /\ unwound' = (out = "panic")
    /\ fired' = IF out = "ok" THEN fired \cup {c} ELSE fired

\* The compositor has applied submission `s` and calls one on-commit callback.
FireOnCommit(s, c) ==
    /\ Running
    /\ c \in submitted[s].commit \ fired
    /\ \E stats \in StatsPtrs, b \in Behaviours : Invoke(c, "commit", stats, b)
    /\ UNCHANGED <<txnVars, heap, closureOf, staged, nodeVars, fdVars,
                   statsVars,
                   compVars, lastCreate, lists>>

\* A compositor that also calls the on-complete callbacks the transaction of
\* submission `s` holds but has not submitted.
FireOnComplete_registered(s, c) ==
    /\ Running
    /\ c \in (submitted[s].complete
                \cup registered[submitted[s].txn]["complete"]) \ fired
    /\ submitted[s].commit \subseteq fired
    /\ \E stats \in StatsPtrs, b \in Behaviours : Invoke(c, "complete", stats, b)
    /\ UNCHANGED <<txnVars, heap, closureOf, staged, nodeVars, fdVars,
                   statsVars, compVars, lastCreate, lists>>

\* The compositor has presented submission `s` and calls one on-complete
\* callback: "This callback will be invoked before the OnComplete callback."
FireOnComplete(s, c) ==
    /\ Running
    /\ c \in submitted[s].complete \ fired
    /\ submitted[s].commit \subseteq fired
    /\ \E stats \in StatsPtrs, b \in Behaviours : Invoke(c, "complete", stats, b)
    /\ UNCHANGED <<txnVars, heap, closureOf, staged, nodeVars, fdVars,
                   statsVars,
                   compVars, lastCreate, lists>>

\* ------------------------------------------------------------ SurfaceControl

\* SurfaceControl::from_ptr: "Assumes ownership of ptr": one more handle, no
\* native call.
from_ptr(n) == nodeHandles' = [nodeHandles EXCEPT ![n] = @ + 1]

\* What ASurfaceControl_createFromWindow / _create leave behind when they
\* return `ptr`: a new node holding one reference for the caller, or nothing.
NativeCreate(n, ptr) ==
    /\ nodeState' = [nodeState EXCEPT ![n] = IF ptr = NULL THEN @ ELSE "alive"]
    /\ nodeRefs' = [nodeRefs EXCEPT ![n] = IF ptr = NULL THEN @ ELSE 1]

\* ASurfaceControl_acquire
NativeAcquire(n) == nodeRefs' = [nodeRefs EXCEPT ![n] = @ + 1]

\* ASurfaceControl_release: the client's last reference gone, the node is no
\* longer the client's to use.
NativeRelease(n) ==
    /\ nodeRefs' = [nodeRefs EXCEPT ![n] = @ - 1]
    /\ nodeState' = [nodeState EXCEPT ![n] = IF nodeRefs[n] <= 1 THEN "released" ELSE @]

\* SurfaceControl::create_from_window: NonNull::new(ptr)? then from_ptr.
\* Nodes are numbered in the order they are created.
create_from_window(n, ptr) ==
    /\ Running
    /\ nodeState[n] = "none"
    /\ \A m \in Nodes : m < n => nodeState[m] # "none"
    /\ NativeCreate(n, ptr)
    /\ LET result == NonNull_new(ptr) IN
        /\ IF result = NoHandle THEN UNCHANGED nodeHandles ELSE from_ptr(n)
        /\ lastCreate' = [fn |-> "create_from_window", raw |-> ptr, result |-> result]
    /\ UNCHANGED <<txnVars, cbVars, procVars, staged, nodeClones, fdVars,
                   statsVars, compVars, lists>>

\* SurfaceControl::create: the same with a SurfaceControl as the parent.
create(parent, n, ptr) ==
    /\ Running
    /\ nodeHandles[parent] > 0
    /\ nodeState[n] = "none"
    /\ \A m \in Nodes : m < n => nodeState[m] # "none"
    /\ NativeCreate(n, ptr)
    /\ LET result == NonNull_new(ptr) IN
        /\ IF result = NoHandle THEN UNCHANGED nodeHandles ELSE from_ptr(n)
        /\ lastCreate' = [fn |-> "create", raw |-> ptr, result |-> result]
    /\ UNCHANGED <<txnVars, cbVars, procVars, staged, nodeClones, fdVars,
                   statsVars, compVars, lists>>

\* A clone that copies the pointer without ASurfaceControl_acquire.
clone_without_acquire(n) ==
    /\ Running
    /\ nodeHandles[n] > 0
    /\ nodeClones[n] < MaxClone
    /\ nodeHandles' = [nodeHandles EXCEPT ![n] = @ + 1]
    /\ nodeClones' = [nodeClones EXCEPT ![n] = @ + 1]
    /\ UNCHANGED <<txnVars, cbVars, procVars, staged, nodeState, nodeRefs,
                   fdVars, statsVars,
                   compVars, lastCreate, lists>>

\* Clone for SurfaceControl: ASurfaceControl_acquire, then Self { ptr }.
clone(n) ==
    /\ Running
    /\ nodeHandles[n] > 0
    /\ nodeClones[n] < MaxClone
    /\ NativeAcquire(n)
    /\ nodeHandles' = [nodeHandles EXCEPT ![n] = @ + 1]
    /\ nodeClones' = [nodeClones EXCEPT ![n] = @ + 1]
    /\ UNCHANGED <<txnVars, cbVars, procVars, staged, nodeState, fdVars,
                   statsVars,
                   compVars, lastCreate, lists>>

\* SurfaceControl::clone_from_ptr: ASurfaceControl_acquire, then from_ptr.
\* Safety contract: `ptr` is a valid ASurfaceControl.
clone_from_ptr(n) ==
    /\ Running
    /\ nodeState[n] = "alive"
    /\ nodeClones[n] < MaxClone
    /\ NativeAcquire(n)
    /\ from_ptr(n)
    /\ nodeClones' = [nodeClones EXCEPT ![n] = @ + 1]
    /\ UNCHANGED <<txnVars, cbVars, procVars, staged, nodeState, fdVars,
                   statsVars,
                   compVars, lastCreate, lists>>

\* Drop for SurfaceControl: ASurfaceControl_release.
drop_SurfaceControl(n) ==
    /\ Running
    /\ nodeHandles[n] > 0
    /\ NativeRelease(n)
    /\ nodeHandles' = [nodeHandles EXCEPT ![n] = @ - 1]
    /\ UNCHANGED <<txnVars, cbVars, procVars, staged, nodeClones, fdVars,
                   statsVars,
                   compVars, lastCreate, lists>>

\* ------------------------------------------------------------------ staging

\* A staging call adds one update to the native transaction; the node is
\* passed as a raw pointer of a borrowed SurfaceControl.
Stage(t, entry) ==
    /\ Running
    /\ handle[t] = "live"
    /\ nodeHandles[entry.node] > 0
    /\ Len(staged[t]) < MaxStaged
    /\ staged' = [staged EXCEPT ![t] = Append(@, entry)]

\* A set_visibility whose update reaches the surface tree at once.
set_visibility_immediate(t, n, v) ==
    /\ Stage(t, [op |-> "setVisibility", node |-> n, arg |-> v])
    /\ latched' = Append(latched, [sub |-> 0,
                                   ops |-> <<[op |-> "setVisibility",
                                              node |-> n, arg |-> v]>>,
                                   time |-> clock])
    /\ UNCHANGED <<txnVars, cbVars, procVars, nodeVars, fdVars, statsVars,
                   clock, lastCreate, lists>>

\* SurfaceTransaction::set_visibility
set_visibility(t, n, v) ==
    /\ Stage(t, [op |-> "setVisibility", node |-> n, arg |-> v])
    /\ UNCHANGED <<txnVars, cbVars, procVars, nodeVars, fdVars, statsVars,
                   compVars, lastCreate, lists>>

\* x_scale / y_scale: an f32 below, at and above zero.
Scales == {-1, 0, 1}

\* SurfaceTransaction::set_scale: the two scales go to
\* ASurfaceTransaction_setScale as they are; the call returns ().
set_scale(t, n, x_scale, y_scale) ==
    /\ Stage(t, [op |-> "setScale", node |-> n, arg |-> <<x_scale, y_scale>>])
    /\ UNCHANGED <<txnVars, cbVars, procVars, nodeVars, fdVars, statsVars,
                   compVars, lastCreate, lists>>

\* ---------------------------------------------------------------- compositor

\* The compositor's clock advances.
Tick ==
    /\ Running
    /\ clock < MaxTime
    /\ clock' = clock + 1
    /\ UNCHANGED <<txnVars, cbVars, procVars, staged, nodeVars, fdVars,
                   statsVars, latched, lastCreate, lists>>

\* The compositor latches submission `s`: "the transaction is guaranteed to
\* be applied atomically.  The transactions which are applied on the same
\* thread are also guaranteed to be applied in order."  All its updates
\* reach the surface tree together, after those of every earlier submission.
Latch(s) ==
    /\ Running
    /\ s = Len(latched) + 1
    /\ s <= Len(submitted)
    /\ latched' = Append(latched, [sub |-> s, ops |-> submitted[s].ops,
                                   time |-> clock])
    /\ UNCHANGED <<txnVars, cbVars, procVars, staged, nodeVars, fdVars,
                   statsVars, clock, lastCreate, lists>>

\* The i64 the native side reports for a latched submission.
NativeLatchTime(s) ==
    LET i == CHOOSE j \in 1..Len(latched) : latched[j].sub = s
    IN latched[i].time

\* A latch_time that narrows the i64 to one bit.
latch_time_narrowed(s) == NativeLatchTime(s) % 2

\* SurfaceTransactionStats::latch_time: the i64 of
\* ASurfaceTransactionStats_getLatchTime as it is.
latch_time(s) == NativeLatchTime(s)

\* The client is handed an OwnedFd over a descriptor of its own (an acquire
\* fence from the rendering layer), to pass as `acquire_fence_fd`.
UnusedFds == {f \in Fds : fdClient[f] + fdNative[f] + fdCloses[f] = 0 /\ f \notin fdSnap}

FreshFd == CHOOSE f \in UnusedFds : \A g \in UnusedFds : f <= g

HasFreshFd == UnusedFds # {}

MakeFence ==
    /\ Running
    /\ HasFreshFd
    /\ fdClient' = [fdClient EXCEPT ![FreshFd] = 1]
    /\ UNCHANGED <<txnVars, cbVars, procVars, staged, nodeVars, fdNative,
                   fdCloses, fdSnap, statsVars,
                   compVars, lastCreate, lists>>

\* Drop for OwnedFd: the descriptor is closed.
drop_OwnedFd(f) ==
    /\ Running
    /\ fdClient[f] > 0
    /\ fdClient' = [fdClient EXCEPT ![f] = @ - 1]
    /\ fdCloses' = [fdCloses EXCEPT ![f] = @ + 1]
    /\ UNCHANGED <<txnVars, cbVars, procVars, staged, nodeVars, fdNative,
                   fdSnap, statsVars,
                   compVars, lastCreate, lists>>

\* The raw value set_buffer passes for `acquire_fence_fd`.
RawFence(fence) == IF fence = None THEN NoFd ELSE fence.fd

\* A set_buffer that reads the descriptor with as_raw_fd(): the OwnedFd it was
\* given is dropped, and so closed, when the call returns.
set_buffer_as_raw_fd(t, n, fence) ==
    /\ Stage(t, [op |-> "setBuffer", node |-> n, arg |-> RawFence(fence)])
    /\ IF fence = None
       THEN UNCHANGED <<fdClient, fdNative, fdCloses>>
       ELSE /\ fdClient[fence.fd] > 0
            /\ fdClient' = [fdClient EXCEPT ![fence.fd] = @ - 1]
            /\ fdCloses' = [fdCloses EXCEPT ![fence.fd] = @ + 1]
            /\ fdNative' = [fdNative EXCEPT ![fence.fd] = @ + 1]
    /\ UNCHANGED <<txnVars, cbVars, procVars, nodeVars, fdSnap, statsVars,
                   compVars, lastCreate, lists>>

\* SurfaceTransaction::set_buffer: Some(fd) => fd.into_raw_fd(), None => -1.
\* into_raw_fd consumes the OwnedFd without closing it; the transaction owns
\* the descriptor from here on.
set_buffer(t, n, fence) ==
    /\ Stage(t, [op |-> "setBuffer", node |-> n, arg |-> RawFence(fence)])
    /\ IF fence = None
       THEN UNCHANGED <<fdClient, fdNative>>
       ELSE /\ fdClient[fence.fd] > 0
            /\ fdClient' = [fdClient EXCEPT ![fence.fd] = @ - 1]
            /\ fdNative' = [fdNative EXCEPT ![fence.fd] = @ + 1]
    /\ UNCHANGED <<txnVars, cbVars, procVars, nodeVars, fdCloses, fdSnap,
                   statsVars,
                   compVars, lastCreate, lists>>

\* The native side closes an acquire fence it was given, once it is done
\* with it.
NativeCloseFence(f) ==
    /\ Running
    /\ fdNative[f] > 0
    /\ fdNative' = [fdNative EXCEPT ![f] = @ - 1]
    /\ fdCloses' = [fdCloses EXCEPT ![f] = @ + 1]
    /\ UNCHANGED <<txnVars, cbVars, procVars, staged, nodeVars, fdClient,
                   fdSnap, statsVars,
                   compVars, lastCreate, lists>>

\* -------------------------------------------------- SurfaceTransactionStats

\* A trampoline runs (*func)(&SurfaceTransactionStats { ptr }): the closure
\* is given the snapshot of its phase.  `fence`: the compositor has fences
\* to hand out for this frame; `count`: the nodes the transaction updated.
DeliverSnapshot(p, fence, count) ==
    /\ Running
    /\ snap.phase = "none"
    /\ p = "commit" => ~fence
    /\ snap' = [phase |-> p, fence |-> fence, count |-> count]
    /\ UNCHANGED <<txnVars, cbVars, procVars, staged, nodeVars, fdVars, lastQuery,
                   compVars, lastCreate, lists>>

\* The callback returns.
EndCallback ==
    /\ Running
    /\ snap.phase # "none"
    /\ snap' = NoSnap
    /\ lists' = [l \in Lists |->
                    IF lists[l].state = "held"
                    THEN [lists[l] EXCEPT !.state = "kept"] ELSE lists[l]]
    /\ UNCHANGED <<txnVars, cbVars, procVars, staged, nodeVars, fdVars, lastQuery,
                   compVars, lastCreate>>

\* ------------------------------------------------------------ SurfaceControls

LiveList(l) == lists[l].state \in {"held", "kept"}

\* SurfaceTransactionStats::surface_controls, called by the closure:
\* ASurfaceTransactionStats_getASurfaceControls fills in a new array of the
\* `count` nodes the transaction updated; SurfaceControls { array, count } is
\* an owned value with no lifetime of the snapshot in its type.
surface_controls(l) ==
    /\ Running
    /\ snap.phase # "none"
    /\ lists[l].state = "none"
    /\ \A k \in Lists : k < l => lists[k].state # "none"
    /\ lists' = [lists EXCEPT ![l] = [state |-> "held",
                                      elems |-> [i \in 1..snap.count |-> i]]]
    /\ UNCHANGED <<txnVars, cbVars, procVars, staged, nodeVars, fdVars,
                   statsVars, compVars, lastCreate>>

\* as_ref()[i].clone(): Clone for SurfaceControl on an element of the shared
\* slice &[SurfaceControl].
clone_element(l, i) ==
    /\ Running
    /\ LiveList(l)
    /\ i \in 1..Len(lists[l].elems)
    /\ LET n == lists[l].elems[i] IN
        /\ nodeClones[n] < MaxClone
        /\ NativeAcquire(n)
        /\ nodeHandles' = [nodeHandles EXCEPT ![n] = @ + 1]
        /\ nodeClones' = [nodeClones EXCEPT ![n] = @ + 1]
    /\ UNCHANGED <<txnVars, cbVars, procVars, staged, nodeState, fdVars,
                   statsVars, compVars, lastCreate, lists>>

\* as_mut()[i] = sc: an assignment through the mutable slice
\* &mut [SurfaceControl].  The SurfaceControl value the slot held is dropped
\* (Drop for SurfaceControl: ASurfaceControl_release) and `sc`, a value of
\* the client over node m, moves into the array.
assign_element(l, i, m) ==
    /\ Running
    /\ LiveList(l)
    /\ i \in 1..Len(lists[l].elems)
    /\ nodeHandles[m] > 0
    /\ NativeRelease(lists[l].elems[i])
    /\ nodeHandles' = [nodeHandles EXCEPT ![m] = @ - 1]
    /\ lists' = [lists EXCEPT ![l].elems[i] = m]
    /\ UNCHANGED <<txnVars, cbVars, procVars, staged, nodeClones, fdVars,
                   statsVars, compVars, lastCreate>>

\* Drop for SurfaceControls: ASurfaceTransactionStats_releaseASurfaceControls
\* frees the array; the elements are not dropped.
drop_SurfaceControls(l) ==
    /\ Running
    /\ LiveList(l)
    /\ lists' = [lists EXCEPT ![l].state = "released"]
    /\ UNCHANGED <<txnVars, cbVars, procVars, staged, nodeVars, fdVars,
                   statsVars, compVars, lastCreate>>

\* What ASurfaceTransactionStats_getPresentFenceFd / _getPreviousReleaseFenceFd
\* can return: a descriptor that is the recipient's to close ("The recipient
\* of the callback takes ownership of the fence and is responsible for
\* closing it"), or -1 when there is none.  In an on-commit callback the
\* query "will result in failure": -1 when the call returns at all.
NativeFenceReturns ==
    IF snap.phase = "complete" /\ snap.fence /\ HasFreshFd
    THEN {FreshFd, NoFd} ELSE {NoFd}

\* A present_fence_fd that takes 0 for the "no fence" value.
PresentFenceFromRaw_zero(raw) == IF raw = 0 THEN None ELSE Some(raw)

\* present_fence_fd: match fd { -1 => None, fd => Some(OwnedFd::from_raw_fd(fd)) }
PresentFenceFromRaw(raw) == IF raw = NoFd THEN None ELSE Some(raw)

\* previous_release_fence_fd: the same match.
ReleaseFenceFromRaw(raw) == IF raw = NoFd THEN None ELSE Some(raw)

\* The descriptors the native side handed out, and the OwnedFd values made
\* of them.
Issue(raws) == fdSnap' = fdSnap \cup (raws \cap Fds)
Own(results) ==
    fdClient' = [f \in Fds |->
                    fdClient[f] + (IF Some(f) \in results THEN 1 ELSE 0)]

\* A present_fence_fd that hands the descriptor on without owning it.
present_fence_fd_unowned ==
    /\ Running
    /\ snap.phase # "none"
    /\ \E raw \in NativeFenceReturns :
        /\ Issue({raw})
        /\ lastQuery' = [fn |-> "present_fence_fd", via |-> "direct",
                         phase |-> snap.phase, fence |-> snap.fence,
                         raw |-> raw, result |-> PresentFenceFromRaw(raw)]
    /\ UNCHANGED <<txnVars, cbVars, procVars, staged, nodeVars, fdClient,
                   fdNative, fdCloses, snap,
                   compVars, lastCreate, lists>>

\* SurfaceTransactionStats::present_fence_fd, called by the closure.
present_fence_fd ==
    /\ Running
    /\ snap.phase # "none"
    /\ \E raw \in NativeFenceReturns :
        /\ Issue({raw})
        /\ Own({PresentFenceFromRaw(raw)})
        /\ lastQuery' = [fn |-> "present_fence_fd", via |-> "direct",
                         phase |-> snap.phase, fence |-> snap.fence,
                         raw |-> raw, result |-> PresentFenceFromRaw(raw)]
    /\ UNCHANGED <<txnVars, cbVars, procVars, staged, nodeVars, fdNative,
                   fdCloses, snap,
                   compVars, lastCreate, lists>>

\* SurfaceTransactionStats::previous_release_fence_fd for the i-th node of
\* the snapshot.
previous_release_fence_fd(i) ==
    /\ Running
    /\ snap.phase # "none"
    /\ i \in 1..snap.count
    /\ \E raw \in NativeFenceReturns :
        /\ Issue({raw})
        /\ Own({ReleaseFenceFromRaw(raw)})
        /\ lastQuery' = [fn |-> "previous_release_fence_fd", via |-> "direct",
                         phase |-> snap.phase, fence |-> snap.fence,
                         raw |-> raw, result |-> ReleaseFenceFromRaw(raw)]
    /\ UNCHANGED <<txnVars, cbVars, procVars, staged, nodeVars, fdNative,
                   fdCloses, snap,
                   compVars, lastCreate, lists>>

\* The j smallest unused descriptors.
RECURSIVE SmallestUnused(_, _)
SmallestUnused(j, pool) ==
    IF j = 0 \/ pool = {} THEN {}
    ELSE LET f == CHOOSE x \in pool : \A y \in pool : x <= y
         IN {f} \cup SmallestUnused(j - 1, pool \ {f})

\* impl fmt::Debug for SurfaceTransactionStats: latch_time, present_fence_fd,
\* then for every node of surface_controls() acquire_time and
\* previous_release_fence_fd.  Each Option<OwnedFd> is a temporary of the
\* field call: formatted, then dropped.  `j` of the 1 + count queries are
\* answered with a descriptor, the first of them the present fence.
fmt ==
    /\ Running
    /\ snap.phase # "none"
    /\ \E j \in 0..(1 + snap.count) :
        /\ j > 0 => (snap.phase = "complete" /\ snap.fence)
        /\ j <= Cardinality(UnusedFds)
        /\ LET got == SmallestUnused(j, UnusedFds)
               presentRaw == IF j = 0 THEN NoFd
                             ELSE CHOOSE x \in got : \A y \in got : x <= y
               releaseRaws == got \ {presentRaw}
               lastRaw == IF snap.count = 0 THEN presentRaw
                          ELSE IF releaseRaws = {} THEN NoFd
                          ELSE CHOOSE x \in releaseRaws : \A y \in releaseRaws : x >= y
               results == {PresentFenceFromRaw(presentRaw)} \cup
                          {ReleaseFenceFromRaw(r) : r \in releaseRaws}
           IN /\ Issue(got)
              /\ fdCloses' = [f \in Fds |->
                                 fdCloses[f] + (IF Some(f) \in results THEN 1 ELSE 0)]
              /\ lastQuery' =
                    [fn |-> IF snap.count = 0 THEN "present_fence_fd"
                                             ELSE "previous_release_fence_fd",
                     via |-> "debug", phase |-> snap.phase, fence |-> snap.fence,
                     raw |-> lastRaw,
                     result |-> IF snap.count = 0 THEN PresentFenceFromRaw(lastRaw)
                                                 ELSE ReleaseFenceFromRaw(lastRaw)]
    /\ UNCHANGED <<txnVars, cbVars, procVars, staged, nodeVars, fdClient,
                   fdNative, snap,
                   compVars, lastCreate, lists>>

\* A fence query on the snapshot of an on-commit callback (made by the
\* closure or by fmt) is not valid; the native layer may end the process.
CommitPhaseQueryFatal ==
    /\ Running
    /\ snap.phase = "commit"
    /\ aborted' = TRUE
    /\ UNCHANGED <<txnVars, cbVars, unwound, staged, nodeVars, fdVars, statsVars,
                   compVars, lastCreate, lists>>

\* Callbacks registered on one transaction, submitted and called back.
Next ==
    \/ \E ptr \in {NULL, 1} : new(1, ptr)
    \/ set_on_complete(1)
    \/ set_on_commit(1)
    \/ apply(1)
    \/ drop_SurfaceTransaction(1)
    \/ \E s \in 1..Len(submitted), c \in Closures : FireOnCommit(s, c)
    \/ \E s \in 1..Len(submitted), c \in Closures : FireOnComplete(s, c)

Spec == Init /\ [][Next]_vars

\* The compositor does call every callback it was handed: "the callback that
\* will be invoked when the updates from this transaction are presented".
CompositorFairness ==
    \A c \in Closures :
        /\ WF_vars(\E s \in 1..Len(submitted) : FireOnCommit(s, c))
        /\ WF_vars(\E s \in 1..Len(submitted) : FireOnComplete(s, c))

FairSpec == Spec /\ CompositorFairness

\* Nodes and staging calls that reference them, on one transaction.
NextNodes ==
    \/ \E ptr \in {NULL, 1} : new(1, ptr)
    \/ \E n \in Nodes, ptr \in {NULL, 1} : create_from_window(n, ptr)
    \/ \E p, n \in Nodes, ptr \in {NULL, 1} : create(p, n, ptr)
    \/ \E n \in Nodes : clone(n)
    \/ \E n \in Nodes : clone_from_ptr(n)
    \/ \E n \in Nodes : drop_SurfaceControl(n)
    \/ \E n \in Nodes, v \in Visibility : set_visibility(1, n, v)

SpecNodes == Init /\ [][NextNodes]_vars

\* Acquire fences passed to set_buffer, on one transaction and one node.
NextFences ==
    \/ \E ptr \in {NULL, 1} : new(1, ptr)
    \/ Len(submitted) < MaxFenceSubmit /\ apply(1)
    \/ drop_SurfaceTransaction(1)
    \/ \E ptr \in {NULL, 1} : create_from_window(1, ptr)
    \/ \E fence \in {None} \cup {Some(f) : f \in Fds} : set_buffer(1, 1, fence)
    \/ MakeFence
    \/ \E f \in Fds : drop_OwnedFd(f)
    \/ \E f \in Fds : NativeCloseFence(f)

SpecFences == Init /\ [][NextFences]_vars

\* Scales staged on one transaction for one node.
NextScale ==
    \/ \E ptr \in {NULL, 1} : new(1, ptr)
    \/ \E ptr \in {NULL, 1} : create_from_window(1, ptr)
    \/ \E x, y \in Scales : set_scale(1, 1, x, y)
    \/ drop_SurfaceTransaction(1)

SpecScale == Init /\ [][NextScale]_vars

\* Updates staged on one transaction for one node, submitted and latched.
NextStaging ==
    \/ \E ptr \in {NULL, 1} : new(1, ptr)
    \/ \E ptr \in {NULL, 1} : create_from_window(1, ptr)
    \/ \E v \in Visibility : set_visibility(1, 1, v)
    \/ apply(1)
    \/ drop_SurfaceTransaction(1)
    \/ \E s \in 1..Len(submitted) : Latch(s)

SpecStaging == Init /\ [][NextStaging]_vars

\* Transactions submitted one after the other from the client thread.
NextOrder ==
    \/ \E t \in Txns, ptr \in {NULL, 1} : new(t, ptr)
    \/ \E t \in Txns : apply(t)
    \/ \E t \in Txns : drop_SurfaceTransaction(t)
    \/ \E s \in 1..Len(submitted) : Latch(s)
    \/ Tick

SpecOrder == Init /\ [][NextOrder]_vars

\* What a callback does with the snapshot it is given.
NextStats ==
    \/ \E p \in Phases, fence \in BOOLEAN, count \in 0..MaxNode :
          DeliverSnapshot(p, fence, count)
    \/ present_fence_fd
    \/ \E i \in 1..MaxNode : previous_release_fence_fd(i)
    \/ fmt
    \/ CommitPhaseQueryFatal
    \/ \E f \in Fds : drop_OwnedFd(f)
    \/ EndCallback

SpecStats == Init /\ [][NextStats]_vars

\* What a callback does with the list of nodes of its snapshot; the nodes of
\* a snapshot are nodes the client has created.
NextLists ==
    \/ \E n \in Nodes, ptr \in {NULL, 1} : create_from_window(n, ptr)
    \/ \E p \in Phases, count \in 0..MaxNode :
          /\ \A n \in 1..count : nodeState[n] # "none"
          /\ DeliverSnapshot(p, FALSE, count)
    \/ \E l \in Lists : surface_controls(l)
    \/ \E l \in Lists, i \in Nodes : clone_element(l, i)
    \/ \E l \in Lists, i, m \in Nodes : assign_element(l, i, m)
    \/ \E n \in Nodes : drop_SurfaceControl(n)
    \/ \E l \in Lists : drop_SurfaceControls(l)
    \/ EndCallback

SpecLists == Init /\ [][NextLists]_vars

\* ------------------------------------------------------------------ claims

Kind(c) == closureOf[c].phase
SubCtx(s) == submitted[s].commit \cup submitted[s].complete
Submitted == UNION {SubCtx(s) : s \in 1..Len(submitted)}
Unsubmitted(t, p) == {c \in Closures : /\ closureOf[c] = [txn |-> t, phase |-> p]
                                       /\ c \notin Submitted}
\* contexts the compositor may still call, now or after a later apply
Callable == (Submitted \ fired) \cup
            UNION {registered[t][p] : t \in Txns, p \in Phases}

C1_AtMostOnce == \A c \in Closures : invoked[c] <= 1

C1_CommitFirst ==
    \A s \in 1..Len(submitted) : \A c \in SubCtx(s) :
        (Kind(c) = "complete" /\ invoked'[c] # invoked[c])
            => \A d \in SubCtx(s) : Kind(d) = "commit" => invoked[d] = 1

C1_Eventually ==
    \A c \in Closures : (c \in Submitted) ~> (invoked[c] = 1 \/ ~Running)

\* C1: a closure handed over by apply is called at most once at every moment
\* and, while the process lives, exactly once in the end; when an on-complete
\* closure of a submission is called, every on-commit closure of the same
\* submission has already been called.
C1_ExactlyOnceInOrder ==
    /\ []C1_AtMostOnce
    /\ [][C1_CommitFirst]_vars
    /\ C1_Eventually

C1_Witness ==
    \E s \in 1..Len(submitted) : \E c, d \in SubCtx(s) :
        /\ Kind(c) = "commit" /\ Kind(d) = "complete"
        /\ invoked[c] = 1 /\ invoked[d] = 1
        /\ Running

\* C2: no trampoline ever runs on a freed box, and every context the
\* compositor may still call is an allocated box, whatever the client thread
\* did in between (apply, drop of the transaction, more registrations).
C2_ClosureAliveUntilCalled ==
    /\ ~uaf
    /\ \A c \in Callable : heap[c] = "alloc"

C2_Witness ==
    \E c \in lateFired : c \in fired /\ invoked[c] = 1

\* C3: once the on-complete callback has fired and the transaction object is
\* gone, the box of that closure is released.
C3_ReleasedAfterFire ==
    \A c \in Closures :
        (/\ Kind(c) = "complete" /\ c \in fired
         /\ handle[closureOf[c].txn] = "dropped") => heap[c] = "freed"

\* C9: between two submissions a transaction has at most one allocated
\* closure per phase.
C9_AtMostOnePerPhase ==
    \A t \in Txns, p \in Phases :
        Cardinality({c \in Unsubmitted(t, p) : heap[c] = "alloc"}) <= 1

\* C10: a panic in a closure or in the trampoline never unwinds into the
\* compositor and never comes back as a normal return: the process is
\* terminated.
C10_PanicAborts ==
    /\ ~unwound
    /\ panicked \cap fired = {}
    /\ (panicked # {} => aborted)

C10_Witness ==
    \E c \in panicked : invoked[c] = 1 /\ aborted

\* C5: a descriptor passed to set_buffer has one owner at a time (the client's
\* OwnedFd or the native side, never both), the client holds no OwnedFd of it
\* once the call has returned, and it is closed at most once, after which
\* nobody owns it.
C5_AcquireFenceSingleOwner ==
    \A f \in Fds : fdClient[f] + fdNative[f] + fdCloses[f] <= 1

StagedFences(ops) == {ops[i].arg : i \in {j \in 1..Len(ops) : ops[j].op = "setBuffer"}}

C5_Witness ==
    \E s \in 1..Len(submitted) : \E f \in Fds :
        /\ f \in StagedFences(submitted[s].ops)
        /\ fdCloses[f] = 1 /\ fdClient[f] = 0 /\ fdNative[f] = 0

\* C8: the references the client holds on a node are as many as its live
\* SurfaceControl values, one per creation or clone that no drop has given
\* back yet, never fewer than none; a staging call leaves both unchanged.
C8_RefsMatchHandles ==
    \A n \in Nodes :
        /\ nodeRefs[n] = nodeHandles[n]
        /\ nodeRefs[n] >= 0
        /\ nodeState[n] = "alive" => nodeRefs[n] >= 1
        /\ nodeState[n] = "released" => nodeRefs[n] = 0

C8_Witness ==
    \E n \in Nodes :
        /\ nodeState[n] = "released" /\ nodeClones[n] >= 1
        /\ nodeRefs[n] = 0 /\ nodeHandles[n] = 0
        /\ \E i \in 1..Len(staged[1]) : staged[1][i].node = n

\* C4: a fence query on the snapshot of an on-commit callback gives an
\* explicit failure, not None and not a descriptor.
C4_CommitQueryFails ==
    lastQuery.phase = "commit" => lastQuery.result.kind = "failure"

\* C6: a descriptor handed out by a stats query is either wrapped by exactly
\* one OwnedFd and open, or owned by nobody and closed exactly once; this
\* holds for direct queries and for the queries fmt makes.
C6_StatsFenceClosedOnce ==
    \A f \in Fds :
        /\ f \in fdSnap => fdClient[f] + fdCloses[f] = 1
        /\ fdClient[f] <= 1 /\ fdCloses[f] <= 1

C6_Witness ==
    /\ lastQuery.via = "debug" /\ lastQuery.result.kind = "some"
    /\ \E f, g \in fdSnap :
          /\ fdClient[f] = 1 /\ fdCloses[f] = 0
          /\ fdClient[g] = 0 /\ fdCloses[g] = 1

\* C7: in an on-complete callback a fence query answered with -1, and every
\* query of a frame without fences, gives None; a Some wraps a descriptor the
\* native side handed out, never -1 or another negative value.
C7_NoFenceIsNone ==
    lastQuery.phase = "complete" =>
        /\ lastQuery.raw = NoFd => lastQuery.result = None
        /\ ~lastQuery.fence => lastQuery.result = None
        /\ lastQuery.result.kind = "some" =>
              (lastQuery.result.fd >= 0 /\ lastQuery.result.fd \in fdSnap)

C7_Witness ==
    /\ lastQuery.phase = "complete" /\ ~lastQuery.fence
    /\ lastQuery.fn = "previous_release_fence_fd" /\ lastQuery.via = "direct"
    /\ lastQuery.raw = NoFd /\ lastQuery.result = None

\* C11: a transaction that has been submitted holds no callback registered
\* since its apply: set_on_commit / set_on_complete after apply is rejected.
C11_NoRegistrationAfterApply ==
    \A t \in Txns :
        (\E s \in 1..Len(submitted) : submitted[s].txn = t)
            => registered[t] = NoReg

C12_DeletedOnceOnDrop ==
    \A t \in Txns : deletes[t] = IF handle[t] = "dropped" THEN 1 ELSE 0

C12_ApplyKeepsObject ==
    Len(submitted') > Len(submitted) =>
        /\ handle' = handle
        /\ deletes' = deletes
        /\ handle'[submitted'[Len(submitted')].txn] = "live"

\* C12: ASurfaceTransaction_delete is called once per transaction, by the
\* drop of the handle and by nothing else, whether or not the compositor has
\* called the callbacks of its submissions; apply leaves the handle live and
\* deletes nothing.
C12_SubmissionDoesNotFree ==
    /\ []C12_DeletedOnceOnDrop
    /\ [][C12_ApplyKeepsObject]_vars

C12_Witness ==
    \E s \in 1..Len(submitted) :
        /\ handle[submitted[s].txn] = "dropped"
        /\ deletes[submitted[s].txn] = 1
        /\ SubCtx(s) \ fired # {}

\* C13: no update with a non-positive x or y scale is ever added to a
\* transaction: set_scale refuses it.
C13_ScaleValidated ==
    \A t \in Txns : \A i \in 1..Len(staged[t]) :
        staged[t][i].op = "setScale" =>
            (staged[t][i].arg[1] > 0 /\ staged[t][i].arg[2] > 0)

\* The updates of a transaction the compositor has not been handed.
Pending == {t \in Txns : staged[t] # <<>>}

\* C14: whatever the surface tree shows is the whole update list of a
\* submission, put there in one step: never an update that is only staged,
\* never a part of a submission.
C14_AtomicApply ==
    \A i \in 1..Len(latched) :
        /\ latched[i].sub \in 1..Len(submitted)
        /\ latched[i].ops = submitted[latched[i].sub].ops

C14_Witness ==
    /\ Pending # {}
    /\ \E i \in 1..Len(latched) : Len(latched[i].ops) >= 2
    /\ Len(latched) < Len(submitted)

Latched == {latched[i].sub : i \in 1..Len(latched)}

\* C15: of two submissions made one after the other the earlier is latched
\* first, and the latch time reported for it is not later than the one
\* reported for the later submission.
C15_LatchInSubmissionOrder ==
    \A a, b \in 1..Len(submitted) :
        (a < b /\ b \in Latched) =>
            /\ a \in Latched
            /\ latch_time(a) <= latch_time(b)

C15_Witness ==
    \E a, b \in Latched :
        /\ a < b
        /\ submitted[a].txn # submitted[b].txn
        /\ latch_time(a) < latch_time(b)
        /\ latch_time(b) = MaxTime

\* C16: new, create_from_window and create return None exactly when the
\* native call returned the null pointer and otherwise Some handle around the
\* very pointer returned; no handle is around null, and a SurfaceControl
\* value exists only for a node the native side created.
C16_NoneExactlyOnNull ==
    /\ lastCreate.fn # "none" =>
          /\ (lastCreate.result = NoHandle) <=> (lastCreate.raw = NULL)
          /\ lastCreate.result # NoHandle =>
                /\ lastCreate.result = SomeHandle(lastCreate.raw)
                /\ lastCreate.result.ptr # NULL
    /\ \A n \in Nodes : nodeHandles[n] > 0 => nodeState[n] = "alive"

C16_Witness ==
    /\ lastCreate = [fn |-> "create", raw |-> NULL, result |-> NoHandle]
    /\ handle[1] = "live"
    /\ \E p, n \in Nodes :
          /\ nodeHandles[p] > 0
          /\ nodeState[n] = "none" /\ nodeHandles[n] = 0 /\ nodeRefs[n] = 0

\* C17: making, using and releasing a list of nodes leaves the references
\* on every node as they were: the client holds as many references as it has
\* SurfaceControl values of its own, and never gives back one it does not
\* hold.
C17_ListLeavesRefCounts ==
    \A n \in Nodes : nodeRefs[n] = nodeHandles[n] /\ nodeRefs[n] >= 0

\* C18: no list of nodes outlives the callback whose snapshot it was made
\* from.
C18_ListsReleasedBeforeReturn ==
    \A l \in Lists : lists[l].state # "kept"

\* C19: formatting a snapshot with Debug inside an on-commit callback makes
\* no fence query.
C19_DebugMakesNoCommitFenceQuery ==
    ~(lastQuery.via = "debug" /\ lastQuery.phase = "commit")

Applied == {submitted[s].txn : s \in 1..Len(submitted)}
Ran == {c \in Closures : invoked[c] > 0} \cup fired \cup panicked

=============================================================================
